---- MODULE Spec2Model ----
(***************************************************************************)
(* UART receiver / transmitter timing of uart.py as a state machine.       *)
(*                                                                         *)
(* One step of the synchronous logic (a rising clock edge) is the action   *)
(* Tick: every register takes the value its "m.d.sync +=" statements       *)
(* compute from the registers' current values and from the live level of   *)
(* the rx line.  Between two clock edges the simulation process of the     *)
(* testbench writes the signals it drives: rx_ack and rx_fix (SetAck,      *)
(* SetFix) and, inside uart_rx_byte, the rx line.  Outside uart_rx_byte    *)
(* the line is free: Tick takes the level it has at the edge as input.     *)
(***************************************************************************)
EXTENDS Integers, Sequences, FiniteSets

\* ------------------------------------------------------------------ bounds

\* UART_RX and UART_TX are built with clock and baud frequencies in
\* 1..MaxClk.
MaxClk == 4

\* clock_divider on its own is called with frequencies in 1..MaxFreq.
MaxFreq == 21

\* Bytes the testbench sends with uart_rx_byte: the three of uart_rx_test
\* (0xAF, 0x42, 0x24) and the two extreme words.
TestBytes == {175, 66, 36, 0, 255}

\* ------------------------------------------------------- program constants

\* rx_buf = Signal( 8 ): the word length, and the loop bound of uart_rx_byte.
WordBits == 8

\* rx_bit = Signal( 3 ).
BitIndexBits == 3

\* ------------------------------------------------------------- arithmetic

RECURSIVE Pow2(_)
Pow2(n) == IF n = 0 THEN 1 ELSE 2 * Pow2(n - 1)

\* Number of binary digits of n >= 1.
RECURSIVE BitLen(_)
BitLen(n) == IF n < 2 THEN 1 ELSE 1 + BitLen(n \div 2)

\* Width of Signal( range( n ) ): the bits needed for n - 1, one bit for 0.
RangeWidth(n) == BitLen(n - 1)

\* Assignment to a Signal of width w keeps the low w bits.
Trunc(v, w) == v % Pow2(w)

\* val & ( 1 << i ), as 0 or 1.
BitOf(val, i) == (val \div Pow2(i)) % 2

\* ------------------------------------------------- double-precision floats
\* clock_divider computes its error rate in Python floats (IEEE-754 binary64,
\* round to nearest, ties to even).  A positive double is [e, m]: m is its
\* 53-bit significand, most significant bit first (m[1] = 1), and m[1] has
\* the weight 2^e.

\* Bits of the significand of a double.
Mant == 53

\* Binary digits of n >= 0, most significant first.
RECURSIVE BinDigits(_)
BinDigits(n) == IF n < 2 THEN <<n>> ELSE Append(BinDigits(n \div 2), n % 2)

\* Value of a sequence of binary digits.
RECURSIVE BinValue(_)
BinValue(s) ==
  IF s = <<>> THEN 0 ELSE 2 * BinValue(SubSeq(s, 1, Len(s) - 1)) + s[Len(s)]

\* One digit of the schoolbook division of a binary number by the integer
\* d >= 1.  st holds the dividend digits still to take (src), the running
\* remainder (r), the quotient digits from its leading 1 (q) and the number
\* of quotient digits dropped before it (lead); the division is over (done)
\* with Mant + 1 digits in q, or with nothing left to divide.
LongDivStep(st, d) ==
  IF st.done THEN st
  ELSE IF Len(st.q) = Mant + 1 THEN [st EXCEPT !.done = TRUE]
  ELSE IF st.src = <<>> /\ st.r = 0 /\ st.q = <<>>
  THEN [st EXCEPT !.done = TRUE]
  ELSE LET b    == IF st.src = <<>> THEN 0 ELSE Head(st.src)
           rest == IF st.src = <<>> THEN <<>> ELSE Tail(st.src)
           t    == 2 * st.r + b
           qb   == IF t >= d THEN 1 ELSE 0
       IN  IF st.q = <<>> /\ qb = 0
           THEN [st EXCEPT !.src = rest, !.r = t, !.lead = st.lead + 1]
           ELSE [st EXCEPT !.src = rest, !.r = t - qb * d,
                           !.q = Append(st.q, qb)]

\* The division carried to its end, eight digits at a time.
RECURSIVE LongDivRun(_, _)
LongDivRun(st, d) ==
  IF st.done THEN st
  ELSE LET s1 == LongDivStep(st, d)
           s2 == LongDivStep(s1, d)
           s3 == LongDivStep(s2, d)
           s4 == LongDivStep(s3, d)
           s5 == LongDivStep(s4, d)
           s6 == LongDivStep(s5, d)
           s7 == LongDivStep(s6, d)
           s8 == LongDivStep(s7, d)
       IN  LongDivRun(s8, d)

\* Schoolbook division of the binary number src by the integer d >= 1, one
\* quotient digit per dividend digit and on past its end: the first Mant + 1
\* digits of the quotient from its leading 1 (q), the number of quotient
\* digits dropped before it (lead), and whether anything is left (sticky).
LongDiv(src, d, r, q, lead) ==
  LET st == LongDivRun([src |-> src, r |-> r, q |-> q, lead |-> lead,
                        done |-> FALSE], d)
  IN  [zero   |-> st.q = <<>>,
       q      |-> st.q,
       lead   |-> st.lead,
       sticky |-> st.q # <<>>
                  /\ (st.r # 0 \/ \E i \in 1..Len(st.src) : st.src[i] = 1)]

\* s + 1 on binary digits; the carry out of the top digit is dropped.
BinInc(s) ==
  LET zeros == {i \in 1..Len(s) : s[i] = 0}
      k     == IF zeros = {} THEN 0
               ELSE CHOOSE i \in zeros : \A j \in zeros : j <= i
  IN  [i \in 1..Len(s) |-> IF i < k THEN s[i] ELSE IF i = k THEN 1 ELSE 0]

\* The double nearest to the quotient res whose dividend's first digit has
\* the weight 2^e0: round to nearest, ties to even.
RoundQuotient(res, e0) ==
  IF res.zero THEN [zero |-> TRUE, e |-> 0, m |-> <<>>]
  ELSE LET m  == SubSeq(res.q, 1, Mant)
           up == res.q[Mant + 1] = 1 /\ (res.sticky \/ m[Mant] = 1)
           e  == e0 - res.lead
       IN  IF ~up THEN [zero |-> FALSE, e |-> e, m |-> m]
           ELSE IF \A i \in 1..Mant : m[i] = 1
           THEN [zero |-> FALSE, e |-> e + 1,
                 m |-> <<1>> \o [i \in 1..(Mant - 1) |-> 0]]
           ELSE [zero |-> FALSE, e |-> e, m |-> BinInc(m)]

\* inf / div on two positive integers: Python's true division.
FloatDivInt(n, d) ==
  RoundQuotient(LongDiv(BinDigits(n), d, 0, <<>>, 0), BitLen(n) - 1)

\* x - k for a double x >= k >= 1 with x < 2 * k: the difference is exact.
\* It is returned as binary digits with the weight of the first one.
FloatSubInt(x, k) ==
  LET int  == BinDigits(BinValue(SubSeq(x.m, 1, x.e + 1)) - k)
      frac == SubSeq(x.m, x.e + 2, Mant)
  IN  [bits |-> int \o frac, e0 |-> Len(int) - 1]

\* y / outf for an exact difference y and a positive integer outf.
FloatDivFixed(y, d) == RoundQuotient(LongDiv(y.bits, d, 0, <<>>, 0), y.e0)

\* a > b on doubles that are not negative.
FloatGT(a, b) ==
  IF a.zero THEN FALSE
  ELSE IF b.zero THEN TRUE
  ELSE \/ a.e > b.e
       \/ /\ a.e = b.e
          /\ \E i \in 1..Mant : /\ a.m[i] > b.m[i]
                                /\ \A j \in 1..(i - 1) : a.m[j] = b.m[j]

\* Four binary digits of a hexadecimal digit.
HexDigit(h) == <<BitOf(h, 3), BitOf(h, 2), BitOf(h, 1), BitOf(h, 0)>>

\* The literal 0.05 (UART_RX and UART_TX pass it as max_err) is the double
\* 0x1.999999999999ap-5.
Double005 ==
  [zero |-> FALSE, e |-> -5,
   m |-> <<1>> \o HexDigit(9) \o HexDigit(9) \o HexDigit(9) \o HexDigit(9)
              \o HexDigit(9) \o HexDigit(9) \o HexDigit(9) \o HexDigit(9)
              \o HexDigit(9) \o HexDigit(9) \o HexDigit(9) \o HexDigit(9)
              \o HexDigit(10)]

\* 0.25 is the double 0x1.0p-2.
Double025 ==
  [zero |-> FALSE, e |-> -2, m |-> <<1>> \o [i \in 1..(Mant - 1) |-> 0]]

\* Tolerances clock_divider is called with: the double, and the fraction
\* num / den it stands for.  No deviation (inf - outf * div) / (div * outf)
\* over the frequencies of the model lies between 1/20 and the double 0.05,
\* which exceeds 1/20 by less than 2^-58.
Tolerances ==
  { [dbl |-> Double005, num |-> 1, den |-> 20],
    [dbl |-> Double025, num |-> 1, den |-> 4] }

\* clock_divider rejecting the divisor 1 as well ("if div <= 1"): the fault
\* C11 is checked against.
clock_dividerAboveOne(inf, outf, max_err) ==
  LET div == inf \div outf
      err == FloatDivFixed(FloatSubInt(FloatDivInt(inf, div), outf), outf)
  IN  IF div <= 1 THEN [raised |-> TRUE, value |-> 0]
      ELSE IF FloatGT(err, max_err) THEN [raised |-> TRUE, value |-> 0]
      ELSE [raised |-> FALSE, value |-> div]

\* clock_divider( inf, outf, max_err ): the divisor returned, or raised for
\* either "raise ValueError".
clock_divider(inf, outf, max_err) ==
  LET div == inf \div outf
      err == FloatDivFixed(FloatSubInt(FloatDivInt(inf, div), outf), outf)
  IN  IF div < 1 THEN [raised |-> TRUE, value |-> 0]
      ELSE IF FloatGT(err, max_err) THEN [raised |-> TRUE, value |-> 0]
      ELSE [raised |-> FALSE, value |-> div]

VARIABLES
  clk_div,    \* self.clk_div, fixed at construction
  fsm,        \* the state register of m.FSM()
  rx,         \* UART_RX.rx: the level of the line
  rx_count,   \* UART_RX.rx_count
  rx_buf,     \* UART_RX.rx_buf
  rx_bit,     \* UART_RX.rx_bit
  rx_ack,     \* UART_RX.rx_ack
  rx_fix,     \* UART_RX.rx_fix
  tx_count,   \* UART_TX.tx_count
  tb_pc,      \* position of the testbench process inside uart_rx_byte
  tb_val,     \* uart_rx_byte's argument val
  tb_i,       \* uart_rx_byte's data-bit loop index i
  tb_j,       \* ticks already waited in the current wait loop
  tb_prev,    \* history: the state "RX_IDLE" was entered from when
              \* uart_rx_byte was called
  tb_clean,   \* history: rx_ack and rx_fix were 0 when it was called
  t_pc,       \* position of the testbench process inside uart_rx_test: the
              \* step of TestPlan it is at, 0 when that test is not run
  from,       \* history: the FSM state left by the last state change
  smp,        \* history: line levels shifted in since the last Idle -> Start
  rx_since,   \* history: ticks since rx_strobe was last asserted
  rx_age,     \* history: ticks since rx_strobe was asserted or rx_count reloaded
  rx_rephased,\* history: rx_count was reloaded since rx_strobe was asserted
  tx_since,   \* history: ticks since tx_strobe was last asserted
  frame_age,  \* history: ticks spent in "RX_START", "RX_DATA" and "RX_STOP"
              \* since the last Idle -> Start
  cd_pc,      \* a lone call of clock_divider: "call", "returned", "raised"
  cd_inf,     \* its argument inf
  cd_outf,    \* its argument outf
  cd_tol,     \* its argument max_err
  cd_ret      \* the value it returned

hw   == <<fsm, rx_count, rx_buf, rx_bit, rx_ack, rx_fix, tx_count>>
tb   == <<tb_pc, tb_val, tb_i, tb_j, tb_prev, tb_clean>>
obs  == <<from, smp, rx_since, rx_age, rx_rephased, tx_since, frame_age>>
cd   == <<cd_pc, cd_inf, cd_outf, cd_tol, cd_ret>>
vars == <<clk_div, rx, hw, tb, t_pc, obs, cd>>

\* ---------------------------------------------------------------- UART_RX

\* m.d.comb += self.rx_strobe.eq( self.rx_count == 0 )
rx_strobe == rx_count = 0

\* m.d.comb += self.tx_strobe.eq( self.tx_count == 0 )
tx_strobe == tx_count = 0

\* CounterNext with the wrap one count late ("== self.clk_div"): the fault
\* C8 is checked against.
CounterNextLate(count) ==
  IF count = clk_div THEN 0 ELSE Trunc(count + 1, RangeWidth(clk_div))

\* The free-running counter of either module.
CounterNext(count) ==
  IF count = clk_div - 1 THEN 0 ELSE Trunc(count + 1, RangeWidth(clk_div))

\* "RX_IDLE" with m.If( ~self.rx ): the Idle -> Start transition.
StartDetected(level) == fsm = "RX_IDLE" /\ level = 0

\* HalfPeriod a whole period long ("self.clk_div - 1"): the fault C14 is
\* checked against.
HalfPeriodWhole == Trunc(clk_div - 1, RangeWidth(clk_div))

\* self.rx_count.eq( self.clk_div // 2 ) in "RX_IDLE"
HalfPeriod == Trunc(clk_div \div 2, RangeWidth(clk_div))

\* ShiftIn with the slice one bit off ("self.rx_buf[ 0 : 7 ]"): bits 6..0
\* stay where they are.  The fault C6 is checked against.
ShiftInKeep(buf, level) == (buf % Pow2(WordBits - 1)) + level * Pow2(WordBits - 1)

\* Cat( self.rx_buf[ 1 : 8 ], self.rx ): bits 7..1 move to 6..0, the line
\* level becomes bit 7.
ShiftIn(buf, level) == (buf \div 2) + level * Pow2(WordBits - 1)

\* Next state from "RX_IDLE".
IdleNext(level) == IF level = 0 THEN "RX_START" ELSE "RX_IDLE"

\* StartNext not waiting for the strobe: the fault C18 is checked against.
StartNextNow(strobe) == "RX_DATA"

\* Next state from "RX_START".
StartNext(strobe) == IF strobe THEN "RX_DATA" ELSE "RX_START"

\* DataNext leaving after the seventh bit ("self.rx_bit == 6"): the fault
\* C15 is checked against.
DataNextEarly(strobe, bit) ==
  IF strobe /\ bit = 6 THEN "RX_STOP" ELSE "RX_DATA"

\* Next state from "RX_DATA".
DataNext(strobe, bit) ==
  IF strobe /\ bit = 7 THEN "RX_STOP" ELSE "RX_DATA"

\* Next state from "RX_STOP".
StopNext(strobe, level) ==
  IF strobe THEN (IF level = 1 THEN "RX_FULL" ELSE "RX_ERROR") ELSE "RX_STOP"

\* FullNext taking a low line for the next start bit: the fault C3 is
\* checked against.
FullNextRestart(ack, level) ==
  IF ack = 1 THEN "RX_IDLE"
  ELSE IF level = 0 THEN "RX_START"
  ELSE "RX_FULL"

\* FullNext with the two tests in the other order: the fault C4 is checked
\* against.
FullNextOverrunFirst(ack, level) ==
  IF level = 0 THEN "RX_ERROR"
  ELSE IF ack = 1 THEN "RX_IDLE"
  ELSE "RX_FULL"

\* Next state from "RX_FULL".
FullNext(ack, level) ==
  IF ack = 1 THEN "RX_IDLE"
  ELSE IF level = 0 THEN "RX_ERROR"
  ELSE "RX_FULL"

\* ErrorNext leaving on rx_ack as well: the fault C2 is checked against.
ErrorNextOnAck(fix) ==
  IF fix = 1 \/ rx_ack = 1 THEN "RX_IDLE" ELSE "RX_ERROR"

\* ErrorNext deaf to rx_fix: the fault C12 is checked against.
ErrorNextStuck(fix) == "RX_ERROR"

\* Next state from "RX_ERROR".
ErrorNext(fix) == IF fix = 1 THEN "RX_IDLE" ELSE "RX_ERROR"

\* m.next of the whole FSM.
FsmNext(level) ==
  CASE fsm = "RX_IDLE"  -> IdleNext(level)
    [] fsm = "RX_START" -> StartNext(rx_strobe)
    [] fsm = "RX_DATA"  -> DataNext(rx_strobe, rx_bit)
    [] fsm = "RX_STOP"  -> StopNext(rx_strobe, level)
    [] fsm = "RX_FULL"  -> FullNext(rx_ack, level)
    [] fsm = "RX_ERROR" -> ErrorNext(rx_fix)

\* rx_count: the FSM's reload is the later assignment and wins.
RxCountNext(level) ==
  IF StartDetected(level) THEN HalfPeriod ELSE CounterNext(rx_count)

\* RxBufNext shifting on in "RX_FULL": the fault C7 is checked against.
RxBufNextFree(level) ==
  IF StartDetected(level) THEN 0
  ELSE IF fsm \in {"RX_DATA", "RX_FULL"} /\ rx_strobe
  THEN ShiftIn(rx_buf, level)
  ELSE rx_buf

\* rx_buf: cleared on Idle -> Start, shifted on a strobe in "RX_DATA".
RxBufNext(level) ==
  IF StartDetected(level) THEN 0
  ELSE IF fsm = "RX_DATA" /\ rx_strobe THEN ShiftIn(rx_buf, level)
  ELSE rx_buf

\* RxBitNext on a register one bit wider ("Signal( 4 )"): the fault C20 is
\* checked against.
RxBitNextWide(level) ==
  IF StartDetected(level) THEN 0
  ELSE IF fsm = "RX_DATA" /\ rx_strobe
  THEN Trunc(rx_bit + 1, BitIndexBits + 1)
  ELSE rx_bit

\* RxBitNext counting every strobe, whatever the state: the fault C16 is
\* checked against.
RxBitNextFree(level) ==
  IF StartDetected(level) THEN 0
  ELSE IF rx_strobe THEN Trunc(rx_bit + 1, BitIndexBits)
  ELSE rx_bit

\* rx_bit: cleared on Idle -> Start, incremented on a strobe in "RX_DATA".
RxBitNext(level) ==
  IF StartDetected(level) THEN 0
  ELSE IF fsm = "RX_DATA" /\ rx_strobe THEN Trunc(rx_bit + 1, BitIndexBits)
  ELSE rx_bit

\* HandshakeNext without the reset of "RX_IDLE": the fault C9 is checked
\* against.
HandshakeNextHold(cur, level) == cur

\* HandshakeNext clearing the level once "RX_FULL" or "RX_ERROR" has seen
\* it (a pulse): the fault C19 is checked against.
HandshakeNextPulse(cur, level) ==
  IF StartDetected(level) \/ fsm \in {"RX_FULL", "RX_ERROR"} THEN 0 ELSE cur

\* rx_ack and rx_fix (cur is either): cleared on Idle -> Start, held
\* otherwise.
HandshakeNext(cur, level) == IF StartDetected(level) THEN 0 ELSE cur

\* One clock edge of the design with the line at level (UART holds both
\* submodules in one "sync" domain).
ClockEdge(level) ==
  /\ rx'       = level
  /\ fsm'      = FsmNext(level)
  /\ rx_count' = RxCountNext(level)
  /\ rx_buf'   = RxBufNext(level)
  /\ rx_bit'   = RxBitNext(level)
  /\ rx_ack'   = HandshakeNext(rx_ack, level)
  /\ rx_fix'   = HandshakeNext(rx_fix, level)
  /\ tx_count' = CounterNext(tx_count)
  /\ UNCHANGED clk_div

\* ---------------------------------------------------------------- history

\* Most samples kept in smp and most ticks counted in rx_since, rx_age and
\* tx_since: more than the design ever needs.
SampleCap == WordBits + 1
SinceCap  == 2 * clk_div + 1

\* Most ticks counted in frame_age: more than a frame of ten bits takes.
FrameCap == (WordBits + 2) * clk_div + 2

Capped(n) == IF n < SinceCap THEN n ELSE SinceCap

\* What an observer of the signals records at a clock edge.
Observe(level) ==
  /\ from' = IF fsm' # fsm THEN fsm ELSE from
  /\ smp' = IF StartDetected(level) THEN <<>>
            ELSE IF fsm = "RX_DATA" /\ rx_strobe
            THEN (IF Len(smp) < SampleCap THEN Append(smp, level)
                  ELSE Append(Tail(smp), level))
            ELSE smp
  /\ rx_since' = IF rx_count' = 0 THEN 0 ELSE Capped(rx_since + 1)
  /\ rx_age' = IF rx_count' = 0 \/ StartDetected(level) THEN 0
               ELSE Capped(rx_age + 1)
  /\ rx_rephased' = IF rx_count' = 0 THEN FALSE
                    ELSE IF StartDetected(level) THEN TRUE
                    ELSE rx_rephased
  /\ tx_since' = IF tx_count' = 0 THEN 0 ELSE Capped(tx_since + 1)
  /\ frame_age' = IF StartDetected(level) THEN 0
                  ELSE IF fsm \in {"RX_START", "RX_DATA", "RX_STOP"}
                            /\ frame_age < FrameCap
                  THEN frame_age + 1
                  ELSE frame_age

\* -------------------------------------------------------------- testbench

\* for i in range( uart_rx.clk_div * 2 ) after uart_rx_byte in uart_rx_test.
WaitTicks == 2 * clk_div

\* uart_rx_test, step by step; the first step is the simulator's, which
\* starts a synchronous process at a clock edge.
TestPlan ==
  << [op |-> "start"],
     [op |-> "byte", val |-> 175],
     [op |-> "wait", ticks |-> 2 * clk_div],
     [op |-> "ack"],
     [op |-> "byte", val |-> 66],
     [op |-> "byte", val |-> 36],
     [op |-> "wait", ticks |-> clk_div],
     [op |-> "fix"],
     [op |-> "byte", val |-> 36],
     [op |-> "ack"],
     [op |-> "wait", ticks |-> clk_div] >>

\* The step uart_rx_test is at is op.
TestAt(op) == t_pc \in 1..Len(TestPlan) /\ TestPlan[t_pc].op = op

\* Ticks of the wait loop the testbench is in.
LoopTicks ==
  IF tb_pc = "wait"
  THEN (IF TestAt("wait") THEN TestPlan[t_pc].ticks ELSE WaitTicks)
  ELSE clk_div

\* yield Tick(): the clock edge.  A testbench inside a wait loop has set the
\* line and counts the tick; otherwise the line has any level.
Tick(level) ==
  /\ tb_pc # "idle" => (level = rx /\ tb_j < LoopTicks)
  /\ ClockEdge(level)
  /\ Observe(level)
  /\ tb_j' = IF tb_pc = "idle" THEN tb_j ELSE tb_j + 1
  /\ UNCHANGED <<tb_pc, tb_val, tb_i, tb_prev, tb_clean, cd, t_pc>>

\* yield uart_rx.rx_ack.eq( v ), between two calls of uart_rx_byte.
SetAck(v) ==
  /\ tb_pc = "idle" /\ v # rx_ack
  /\ rx_ack' = v
  /\ UNCHANGED <<clk_div, rx, fsm, rx_count, rx_buf, rx_bit, rx_fix,
                 tx_count, tb, obs, cd, t_pc>>

\* yield uart_rx.rx_fix.eq( v ), between two calls of uart_rx_byte.
SetFix(v) ==
  /\ tb_pc = "idle" /\ v # rx_fix
  /\ rx_fix' = v
  /\ UNCHANGED <<clk_div, rx, fsm, rx_count, rx_buf, rx_bit, rx_ack,
                 tx_count, tb, obs, cd, t_pc>>

\* uart_rx_byte( uart, val ), called with the receiver idle and the line at
\* its idle level: the start bit goes on the line.
RxByteBegin(val) ==
  /\ tb_pc = "idle" /\ fsm = "RX_IDLE" /\ rx = 1
  /\ rx' = 0
  /\ tb_pc' = "start" /\ tb_val' = val /\ tb_i' = 0 /\ tb_j' = 0
  /\ tb_prev' = from
  /\ tb_clean' = (rx_ack = 0 /\ rx_fix = 0)
  /\ UNCHANGED <<clk_div, hw, obs, cd, t_pc>>

\* The wait loop is over: the next data bit goes on the line.
RxByteData ==
  /\ tb_j = clk_div
  /\ \/ tb_pc = "start" /\ tb_i' = 0
     \/ tb_pc = "data" /\ tb_i < WordBits - 1 /\ tb_i' = tb_i + 1
  /\ rx' = BitOf(tb_val, tb_i')
  /\ tb_pc' = "data" /\ tb_j' = 0
  /\ UNCHANGED <<clk_div, hw, tb_val, tb_prev, tb_clean, obs, cd, t_pc>>

\* All data bits are sent: the stop bit goes on the line.
RxByteStop ==
  /\ tb_pc = "data" /\ tb_i = WordBits - 1 /\ tb_j = clk_div
  /\ rx' = 1
  /\ tb_pc' = "stop" /\ tb_j' = 0
  /\ UNCHANGED <<clk_div, hw, tb_val, tb_i, tb_prev, tb_clean, obs, cd, t_pc>>

\* The last wait loop is over: uart_rx_byte returns, and uart_rx_test waits
\* "a couple of cycles" with the line left at its idle level.
RxByteEnd ==
  /\ tb_pc = "stop" /\ tb_j = clk_div
  /\ tb_pc' = "wait" /\ tb_j' = 0
  /\ UNCHANGED <<clk_div, rx, hw, tb_val, tb_i, tb_prev, tb_clean, obs, cd, t_pc>>

\* That wait is over: the testbench goes on to its handshake writes.
TestWaitEnd ==
  /\ tb_pc = "wait" /\ tb_j = WaitTicks
  /\ tb_pc' = "idle" /\ tb_val' = 0 /\ tb_i' = 0 /\ tb_j' = 0
  /\ tb_prev' = "RX_IDLE" /\ tb_clean' = TRUE
  /\ UNCHANGED <<clk_div, rx, hw, obs, cd, t_pc>>

\* --------------------------------------------------------- uart_rx_test

\* sim.add_sync_process( proc_rx ): the process starts at the first clock
\* edge, which the design sees with the line at its reset level.
TestStartAtEdge ==
  /\ TestAt("start")
  /\ ClockEdge(rx)
  /\ Observe(rx)
  /\ t_pc' = t_pc + 1
  /\ UNCHANGED <<tb, cd>>

\* The same, with a simulator that lets the process write before the design
\* has seen an edge.
TestStartBeforeEdge ==
  /\ TestAt("start")
  /\ t_pc' = t_pc + 1
  /\ UNCHANGED <<clk_div, rx, hw, tb, obs, cd>>

\* yield Tick() inside a wait loop of uart_rx_test or uart_rx_byte.
TestTick ==
  /\ t_pc # 0 /\ tb_pc # "idle"
  /\ Tick(rx)

\* yield from uart_rx_byte( uart_rx, val ): the start bit goes on the line,
\* whatever state the receiver is in.
TestRxByte ==
  /\ TestAt("byte") /\ tb_pc = "idle"
  /\ rx' = 0
  /\ tb_pc' = "start" /\ tb_val' = TestPlan[t_pc].val /\ tb_i' = 0 /\ tb_j' = 0
  /\ tb_prev' = from
  /\ tb_clean' = (rx_ack = 0 /\ rx_fix = 0)
  /\ UNCHANGED <<clk_div, hw, t_pc, obs, cd>>

\* The data and stop bits of that call.
TestRxByteData == t_pc # 0 /\ RxByteData
TestRxByteStop == t_pc # 0 /\ RxByteStop

\* uart_rx_byte returns to uart_rx_test.
TestRxByteReturn ==
  /\ TestAt("byte") /\ tb_pc = "stop" /\ tb_j = clk_div
  /\ tb_pc' = "idle" /\ tb_j' = 0
  /\ t_pc' = t_pc + 1
  /\ UNCHANGED <<clk_div, rx, hw, tb_val, tb_i, tb_prev, tb_clean, obs, cd>>

\* for i in range( ... ): yield Tick() in uart_rx_test: the loop is entered.
TestLoopBegin ==
  /\ TestAt("wait") /\ tb_pc = "idle"
  /\ tb_pc' = "wait" /\ tb_j' = 0
  /\ UNCHANGED <<clk_div, rx, hw, tb_val, tb_i, tb_prev, tb_clean, t_pc, obs, cd>>

\* The loop is left.
TestLoopEnd ==
  /\ TestAt("wait") /\ tb_pc = "wait" /\ tb_j = LoopTicks
  /\ tb_pc' = "idle" /\ tb_j' = 0
  /\ t_pc' = t_pc + 1
  /\ UNCHANGED <<clk_div, rx, hw, tb_val, tb_i, tb_prev, tb_clean, obs, cd>>

\* yield uart_rx.rx_ack.eq( 1 ) in uart_rx_test.
TestAck ==
  /\ TestAt("ack")
  /\ rx_ack' = 1
  /\ t_pc' = t_pc + 1
  /\ UNCHANGED <<clk_div, rx, fsm, rx_count, rx_buf, rx_bit, rx_fix,
                 tx_count, tb, obs, cd>>

\* yield uart_rx.rx_fix.eq( 1 ) in uart_rx_test.
TestFix ==
  /\ TestAt("fix")
  /\ rx_fix' = 1
  /\ t_pc' = t_pc + 1
  /\ UNCHANGED <<clk_div, rx, fsm, rx_count, rx_buf, rx_bit, rx_ack,
                 tx_count, tb, obs, cd>>

\* ---------------------------------------------------------- specification

\* No call of clock_divider on its own.
CdOff ==
  cd_pc = "off" /\ cd_inf = 1 /\ cd_outf = 1 /\ cd_tol = [dbl |-> Double005, num |-> 1, den |-> 20] /\ cd_ret = 0

\* The divisors UART_RX.__init__ and UART_TX.__init__ can store.
Divisors ==
  { clock_divider(inf, outf, Double005).value :
      <<inf, outf>> \in { p \in (1..MaxClk) \X (1..MaxClk) :
                            ~clock_divider(p[1], p[2], Double005).raised } }

\* The reset values of the signals (0, and the first state of the FSM).
Reset ==
  /\ fsm = "RX_IDLE"
  /\ rx = 0
  /\ rx_count = 0 /\ rx_buf = 0 /\ rx_bit = 0 /\ rx_ack = 0 /\ rx_fix = 0
  /\ tx_count = 0
  /\ tb_pc = "idle" /\ tb_val = 0 /\ tb_i = 0 /\ tb_j = 0
  /\ tb_prev = "RX_IDLE" /\ tb_clean = TRUE
  /\ from = "RX_IDLE" /\ smp = <<>>
  /\ rx_since = 0 /\ rx_age = 0 /\ rx_rephased = FALSE /\ tx_since = 0
  /\ frame_age = 0

Init ==
  /\ clk_div \in Divisors
  /\ Reset
  /\ t_pc = 0
  /\ CdOff

Next ==
  \/ \E level \in {0, 1} : Tick(level)
  \/ \E v \in {0, 1} : SetAck(v)
  \/ \E v \in {0, 1} : SetFix(v)
  \/ \E val \in TestBytes : RxByteBegin(val)
  \/ RxByteData
  \/ RxByteStop
  \/ RxByteEnd
  \/ TestWaitEnd

Spec == Init /\ [][Next]_vars

\* --------------------------------------------- clock_divider, on its own

\* The call returns or raises.
CallClockDivider ==
  /\ cd_pc = "call"
  /\ LET r == clock_divider(cd_inf, cd_outf, cd_tol.dbl)
     IN  /\ cd_pc' = IF r.raised THEN "raised" ELSE "returned"
         /\ cd_ret' = r.value
  /\ UNCHANGED <<clk_div, rx, hw, tb, obs, cd_inf, cd_outf, cd_tol, t_pc>>

InitDiv ==
  /\ clk_div = 1
  /\ Reset
  /\ t_pc = 0
  /\ cd_pc = "call"
  /\ cd_inf \in 1..MaxFreq
  /\ cd_outf \in 1..MaxFreq
  /\ cd_tol \in Tolerances
  /\ cd_ret = 0

NextDiv == CallClockDivider

SpecDiv == InitDiv /\ [][NextDiv]_vars

\* ------------------------------------------- uart_rx_test, as __main__ runs it

\* UART_RX( 24000000, 1000000 )
TestClk  == 24000000
TestBaud == 1000000

InitTest ==
  /\ ~clock_divider(TestClk, TestBaud, Double005).raised
  /\ clk_div = clock_divider(TestClk, TestBaud, Double005).value
  /\ Reset
  /\ t_pc = 1
  /\ CdOff

NextTest ==
  \/ TestStartAtEdge
  \/ TestStartBeforeEdge
  \/ TestTick
  \/ TestRxByte
  \/ TestRxByteData
  \/ TestRxByteStop
  \/ TestRxByteReturn
  \/ TestLoopBegin
  \/ TestLoopEnd
  \/ TestAck
  \/ TestFix

SpecTest == InitTest /\ [][NextTest]_vars

\* Every signal holds a value of its shape.
TypeOK ==
  /\ fsm \in {"RX_IDLE", "RX_START", "RX_DATA", "RX_STOP", "RX_FULL", "RX_ERROR"}
  /\ rx \in {0, 1} /\ rx_ack \in {0, 1} /\ rx_fix \in {0, 1}
  /\ rx_count \in 0..(clk_div - 1) /\ tx_count \in 0..(clk_div - 1)
  /\ rx_buf \in 0..255 /\ rx_bit \in 0..7

\* ------------------------------------------------------------------ claims

\* The testbench is sending a frame or waiting after it.
InFrame == tb_pc # "idle"

\* The frame is sent and the wait after it is over.
FrameOver == tb_pc = "wait" /\ tb_j = WaitTicks

\* The word whose bit k - 1 is s[k].
RECURSIVE Pack(_)
Pack(s) == IF s = <<>> THEN 0 ELSE Head(s) + 2 * Pack(Tail(s))

\* C1: a well-formed frame for the byte tb_val, sent from "RX_IDLE" with the
\* line high and rx_ack = rx_fix = 0, never drives the engine to "RX_ERROR",
\* leaves it in "RX_FULL", and rx_buf is tb_val whenever it is in "RX_FULL".
C1_RoundTripDecode ==
  (InFrame /\ tb_clean) =>
    /\ fsm # "RX_ERROR"
    /\ fsm = "RX_FULL" => rx_buf = tb_val
    /\ FrameOver => fsm = "RX_FULL"

\* C2: a strobe tick in "RX_STOP" leads to "RX_ERROR" if the line is low and
\* to "RX_FULL" if it is high, and a tick in "RX_ERROR" with rx_fix = 0 stays
\* in "RX_ERROR" whatever the line and rx_ack are.
C2_StopBitAndStickyError ==
  [][\A level \in {0, 1} : Tick(level) =>
       /\ (fsm = "RX_STOP" /\ rx_strobe) =>
            fsm' = IF level = 0 THEN "RX_ERROR" ELSE "RX_FULL"
       /\ (fsm = "RX_ERROR" /\ rx_fix = 0) => fsm' = "RX_ERROR"]_vars

\* "RX_ERROR" was entered on a missing stop bit and has outlasted a change of
\* the line and an asserted rx_ack.
C2_Witness ==
  fsm = "RX_ERROR" /\ from = "RX_STOP" /\ rx = 1 /\ rx_ack = 1 /\ rx_fix = 0

\* C3: a tick in "RX_FULL" with rx_ack = 0 and the line low leads to
\* "RX_ERROR", and no tick leads from "RX_FULL" to "RX_START" or "RX_DATA".
C3_Overrun ==
  [][\A level \in {0, 1} : Tick(level) =>
       /\ (fsm = "RX_FULL" /\ rx_ack = 0 /\ level = 0) => fsm' = "RX_ERROR"
       /\ fsm = "RX_FULL" => fsm' \notin {"RX_START", "RX_DATA"}]_vars

\* "RX_ERROR" was entered from "RX_FULL": an overrun.
C3_Witness ==
  fsm = "RX_ERROR" /\ from = "RX_FULL" /\ rx = 0 /\ rx_ack = 0 /\ tb_pc = "idle"

\* C4: a tick in "RX_FULL" with rx_ack = 1 leads to "RX_IDLE", the line low
\* or not.
C4_AckBeforeOverrun ==
  [][\A level \in {0, 1} :
       (Tick(level) /\ fsm = "RX_FULL" /\ rx_ack = 1) => fsm' = "RX_IDLE"]_vars

\* "RX_FULL" was left for "RX_IDLE" on a tick with the line low.
C4_Witness ==
  fsm = "RX_IDLE" /\ from = "RX_FULL" /\ rx = 0 /\ tb_pc = "idle"

\* C5: a tick in "RX_ERROR" with rx_fix = 1 leads to "RX_IDLE", and a
\* well-formed frame for the byte tb_val sent after "RX_ERROR" was left
\* ends in "RX_FULL" with rx_buf = tb_val.
C5_FixNoResidue ==
  /\ [][\A level \in {0, 1} :
          (Tick(level) /\ fsm = "RX_ERROR" /\ rx_fix = 1) =>
            fsm' = "RX_IDLE"]_vars
  /\ []((InFrame /\ tb_prev = "RX_ERROR") =>
          /\ fsm = "RX_FULL" => rx_buf = tb_val
          /\ FrameOver => fsm = "RX_FULL")

\* C6: a tick in "RX_FULL" with rx_ack = 1 leads to "RX_IDLE", and once the
\* data bits of a frame are in, rx_buf is the word made of the eight line
\* levels sampled in that frame and of nothing else.
C6_NoStaleBits ==
  /\ [][\A level \in {0, 1} :
          (Tick(level) /\ fsm = "RX_FULL" /\ rx_ack = 1) =>
            fsm' = "RX_IDLE"]_vars
  /\ [](fsm \in {"RX_STOP", "RX_FULL"} =>
          Len(smp) = WordBits /\ rx_buf = Pack(smp))

\* A frame sent after the previous byte was acknowledged has reached
\* "RX_FULL", and its samples are not those of an all-zero or all-one word.
C6_Witness ==
  /\ tb_pc = "wait" /\ tb_prev = "RX_FULL" /\ fsm = "RX_FULL"
  /\ rx_buf \notin {0, 255}

\* C7: no step taken in "RX_FULL" changes rx_buf, and "RX_FULL" is left only
\* for "RX_IDLE" with rx_ack asserted or for "RX_ERROR".
C7_Backpressure ==
  [][fsm = "RX_FULL" =>
       /\ rx_buf' = rx_buf
       /\ \/ fsm' = "RX_FULL"
          \/ fsm' = "RX_ERROR"
          \/ fsm' = "RX_IDLE" /\ rx_ack = 1]_vars

\* A byte has been held in "RX_FULL" through the whole wait after its frame.
C7_Witness ==
  FrameOver /\ fsm = "RX_FULL" /\ rx_buf = tb_val /\ tb_val = 175

\* C8, as stated: at every tick, each strobe is asserted next exactly when
\* clk_div - 1 ticks have passed since it was last asserted.
C8_StrobePeriodic ==
  [][\A level \in {0, 1} : Tick(level) =>
       /\ (rx_count' = 0) <=> (rx_since + 1 = clk_div)
       /\ (tx_count' = 0) <=> (tx_since + 1 = clk_div)]_vars

\* C8, amended: tx_strobe has the period clk_div; rx_strobe has it on the
\* ticks that are no Idle -> Start transition, counted from the last strobe,
\* or from the last Idle -> Start transition, which leaves
\* clk_div - clk_div // 2 ticks to the next strobe.
C8_StrobePeriodicBetweenReloads ==
  [][\A level \in {0, 1} : Tick(level) =>
       /\ ~StartDetected(level) =>
            ((rx_count' = 0) <=>
               (rx_age + 1 = IF rx_rephased THEN clk_div - HalfPeriod
                             ELSE clk_div))
       /\ (tx_count' = 0) <=> (tx_since + 1 = clk_div)]_vars

\* The two generators, in phase at reset, are out of phase after a reload:
\* rx_strobe is asserted in a frame on a tick on which tx_strobe is not.
C8_Witness ==
  fsm \in {"RX_START", "RX_DATA"} /\ rx_strobe /\ ~tx_strobe

\* C9, as stated: no tick changes rx_ack or rx_fix.
C9_HandshakeNeverWritten ==
  [][\A level \in {0, 1} :
       Tick(level) => (rx_ack' = rx_ack /\ rx_fix' = rx_fix)]_vars

\* C9, amended: the Idle -> Start tick clears rx_ack and rx_fix, and every
\* other tick leaves both as they are.
C9_HandshakeWrittenOnStartOnly ==
  [][\A level \in {0, 1} : Tick(level) =>
       IF StartDetected(level)
       THEN rx_ack' = 0 /\ rx_fix' = 0
       ELSE rx_ack' = rx_ack /\ rx_fix' = rx_fix]_vars

\* The first tick of a frame sent with rx_ack or rx_fix asserted has cleared
\* both.
C9_Witness ==
  /\ tb_pc = "start" /\ tb_j = 1 /\ ~tb_clean
  /\ fsm = "RX_START" /\ rx_ack = 0 /\ rx_fix = 0

\* C10: clock_divider returns exactly when div = inf // outf is at least 1
\* and the deviation (inf / div - outf) / outf is at most max_err, and then
\* returns div.
C10_DivisorValidity ==
  cd_pc \in {"returned", "raised"} =>
    LET div    == cd_inf \div cd_outf
        within == /\ div >= 1
                  /\ (cd_inf - cd_outf * div) * cd_tol.den
                       <= cd_tol.num * div * cd_outf
    IN  /\ (cd_pc = "returned") <=> within
        /\ cd_pc = "returned" => cd_ret = div

\* C11 as stated: clock_divider raises whenever baud_rate >= clk_freq, the
\* case baud_rate = clk_freq included.
C11_RaisesAtOrAboveClock ==
  (cd_pc \in {"returned", "raised"} /\ cd_outf >= cd_inf) => cd_pc = "raised"

\* C11, amended: clock_divider raises whenever baud_rate > clk_freq (the
\* divisor is 0); for baud_rate = clk_freq the divisor is 1, the deviation
\* is 0, and 1 is returned.
C11_RaisesAboveClock ==
  cd_pc \in {"returned", "raised"} =>
    /\ cd_outf > cd_inf => cd_pc = "raised"
    /\ cd_outf = cd_inf => (cd_pc = "returned" /\ cd_ret = 1)

\* A call with baud_rate = clk_freq has returned the divisor 1.
C11_Witness ==
  cd_pc = "returned" /\ cd_inf = cd_outf /\ cd_inf = MaxFreq /\ cd_ret = 1

\* uart_rx_test has just finished step k of TestPlan.
TestDone(k) == t_pc = k + 1 /\ tb_pc = "idle"

SampleDue == InFrame /\ tb_j < LoopTicks /\ rx_strobe

\* C13: with each frame bit held clk_div ticks from the tick "RX_IDLE" sees
\* the line low, the strobe consumed in "RX_START" falls in the start bit's
\* window, the k-th strobe of "RX_DATA" in the window of data bit k - 1, and
\* the strobe of "RX_STOP" in the stop bit's window.
C13_MidBitSampling ==
  SampleDue =>
    /\ fsm = "RX_START" => tb_pc = "start"
    /\ fsm = "RX_DATA"  => (tb_pc = "data" /\ tb_i = rx_bit)
    /\ fsm = "RX_STOP"  => tb_pc = "stop"

\* C14: a tick that finds "RX_IDLE" with the line low leads to "RX_START"
\* with rx_ack, rx_fix, rx_bit and rx_buf at 0 and rx_count at clk_div // 2,
\* whatever the counter held; a tick that finds "RX_IDLE" with the line high
\* stays in "RX_IDLE" and changes none of rx_ack, rx_fix, rx_bit, rx_buf.
C14_IdleStartReset ==
  [][\A level \in {0, 1} :
       (Tick(level) /\ fsm = "RX_IDLE") =>
         IF level = 0
         THEN /\ fsm' = "RX_START"
              /\ rx_ack' = 0 /\ rx_fix' = 0 /\ rx_bit' = 0 /\ rx_buf' = 0
              /\ rx_count' = clk_div \div 2
         ELSE /\ fsm' = "RX_IDLE"
              /\ UNCHANGED <<rx_ack, rx_fix, rx_bit, rx_buf>>]_vars

\* A frame sent after an acknowledged byte has just begun: the handshake
\* and the buffer are cleared, and the counter is reloaded away from the
\* transmitter's free-running one.
C14_Witness ==
  /\ tb_pc = "start" /\ tb_j = 1 /\ tb_prev = "RX_FULL" /\ ~tb_clean
  /\ fsm = "RX_START" /\ from = "RX_IDLE"
  /\ rx_count = clk_div \div 2 /\ rx_count # tx_count
  /\ rx_ack = 0 /\ rx_buf = 0

\* C15: a tick in "RX_DATA" with rx_strobe shifts the live line level into
\* bit 7 of rx_buf and bits 7..1 down to 6..0, and leads to "RX_STOP" exactly
\* when it latches the eighth bit of the frame, else stays in "RX_DATA"; a
\* tick in "RX_DATA" without rx_strobe changes none of rx_buf, rx_bit and
\* the state.  So "RX_STOP" is entered with exactly eight bits latched.
C15_EightBitsPerFrame ==
  /\ [][\A level \in {0, 1} :
          (Tick(level) /\ fsm = "RX_DATA") =>
            IF rx_strobe
            THEN /\ rx_buf' = (rx_buf \div 2) + 128 * level
                 /\ Len(smp') = Len(smp) + 1
                 /\ fsm' = IF Len(smp') = 8 THEN "RX_STOP" ELSE "RX_DATA"
            ELSE UNCHANGED <<rx_buf, rx_bit, fsm>>]_vars
  /\ [](fsm = "RX_DATA" => Len(smp) < 8)

\* The eighth strobe of a frame with alternating line levels has just led
\* to "RX_STOP".
C15_Witness ==
  /\ fsm = "RX_STOP" /\ from = "RX_DATA" /\ rx_since = 1
  /\ smp = <<0, 1, 0, 1, 0, 1, 0, 1>> /\ rx_buf = 170

\* C16: a step changes rx_buf or rx_bit only if it is taken in "RX_DATA",
\* or is the Idle -> Start transition, which leaves both at 0; so no tick
\* in "RX_START", "RX_STOP", "RX_FULL" or "RX_ERROR" changes either.
C16_BufferFrameCondition ==
  [][(rx_buf' # rx_buf \/ rx_bit' # rx_bit) =>
       \/ fsm = "RX_DATA"
       \/ /\ fsm = "RX_IDLE" /\ fsm' = "RX_START"
          /\ rx_buf' = 0 /\ rx_bit' = 0]_vars

\* A decoded byte has stayed in rx_buf through "RX_STOP", "RX_FULL" and into
\* "RX_ERROR", with the line moving and the strobe running.
C16_Witness ==
  /\ fsm = "RX_ERROR" /\ from = "RX_FULL" /\ rx_strobe /\ rx = 1
  /\ Len(smp) = WordBits /\ rx_buf = Pack(smp) /\ rx_buf \notin {0, 255}
  /\ rx_bit = 0

\* C17: both counters are 0 at reset, and in every reachable state, the one
\* right after the Idle -> Start reload included, rx_count and tx_count lie
\* in 0 .. clk_div - 1 (the strobes being the comparisons of the counters
\* with 0).
C17_CounterRange ==
  /\ rx_count = 0 /\ tx_count = 0 /\ rx_strobe /\ tx_strobe
  /\ [](/\ 0 <= rx_count /\ rx_count <= clk_div - 1
        /\ 0 <= tx_count /\ tx_count <= clk_div - 1)

\* The reload has just put rx_count at clk_div // 2 while tx_count stands at
\* its highest value.
C17_Witness ==
  /\ clk_div > 2
  /\ fsm = "RX_START" /\ rx_age = 0 /\ rx_rephased
  /\ rx_count = clk_div \div 2 /\ tx_count = clk_div - 1

\* Ticks from the tick after Idle -> Start to the end of the frame.
FrameTicks == 10 * clk_div - (clk_div \div 2) + 1

\* C18: for every divisor of at least 2, and whatever the line and the
\* handshake do, the receiver that entered "RX_START" (with rx_count at
\* clk_div // 2) has, FrameTicks ticks later, reached "RX_FULL" or
\* "RX_ERROR", and not before: it is in "RX_START", "RX_DATA" or "RX_STOP"
\* only with fewer ticks than that behind it since Idle -> Start, and in
\* "RX_FULL" or "RX_ERROR" only after exactly that many.
C18_FixedFrameLength ==
  clk_div >= 2 =>
    /\ (fsm = "RX_START" /\ frame_age = 0) => rx_count = clk_div \div 2
    /\ fsm \in {"RX_START", "RX_DATA", "RX_STOP"} => frame_age < FrameTicks
    /\ fsm \in {"RX_FULL", "RX_ERROR"} => frame_age = FrameTicks

\* A frame on a free-running line has just ended in "RX_ERROR", after
\* exactly FrameTicks ticks.
C18_Witness ==
  /\ clk_div >= 2 /\ tb_pc = "idle"
  /\ fsm = "RX_ERROR" /\ from = "RX_STOP" /\ rx_since = 1
  /\ frame_age = FrameTicks

\* C19: a tick changes rx_ack or rx_fix only as the Idle -> Start
\* transition, so a level written at any other time stays through
\* "RX_START", "RX_DATA", "RX_STOP", "RX_FULL" and "RX_ERROR"; hence
\* "RX_FULL" found with rx_ack still asserted is left for "RX_IDLE" on its
\* first tick, and "RX_ERROR" found with rx_fix still asserted likewise.
C19_HandshakeLatched ==
  [][\A level \in {0, 1} : Tick(level) =>
       /\ (fsm # "RX_IDLE" \/ fsm' # "RX_START") =>
            UNCHANGED <<rx_ack, rx_fix>>
       /\ (fsm \in {"RX_START", "RX_DATA", "RX_STOP"} /\ rx_ack = 1
             /\ fsm' = "RX_FULL") => rx_ack' = 1
       /\ (fsm \in {"RX_START", "RX_DATA", "RX_STOP", "RX_FULL"}
             /\ rx_fix = 1 /\ fsm' = "RX_ERROR") => rx_fix' = 1
       /\ (fsm = "RX_FULL" /\ rx_ack = 1) => fsm' = "RX_IDLE"
       /\ (fsm = "RX_ERROR" /\ rx_fix = 1) => fsm' = "RX_IDLE"]_vars

\* "RX_FULL" has just been entered with both levels asserted, as written
\* since the frame began.
C19_Witness ==
  /\ tb_pc = "idle"
  /\ fsm = "RX_FULL" /\ from = "RX_STOP" /\ rx_since = 1
  /\ rx_ack = 1 /\ rx_fix = 1

\* C20: rx_bit stays in 0..7; in "RX_DATA" it is the number of bits latched
\* so far, and the eighth strobe wraps it from 7 to 0, so it is 0 in
\* "RX_STOP" and rx_bit # 0 is seen in "RX_DATA" only.
C20_BitIndexWraps ==
  /\ rx_bit \in 0..7
  /\ rx_bit # 0 => fsm = "RX_DATA"
  /\ fsm = "RX_DATA" => rx_bit = Len(smp)
  /\ fsm = "RX_STOP" => (Len(smp) = 8 /\ rx_bit = 0)

\* The eighth bit of a frame sent by the testbench has been latched and
\* rx_bit is back at 0.
C20_Witness ==
  /\ tb_pc \in {"data", "stop"} /\ tb_val = 255
  /\ fsm = "RX_STOP" /\ from = "RX_DATA" /\ Len(smp) = 8 /\ rx_bit = 0

====
